---- MODULE Spec2Model ----
(***************************************************************************)
(* Model of examples/benchmark_torch.py: benchmark().                      *)
(*                                                                         *)
(* The program is one straight-line control flow (pc) over its locals,     *)
(* running against three pieces of environment it only observes or drives: *)
(*   - torch.cuda.is_available()   (cuda_available, may change any time)   *)
(*   - the CUDA stream             (queue, kernels complete asynchronously)*)
(*   - the wall clock time.time()  (clock, advances and may be set back)   *)
(* Python locals that are not yet bound are the empty sequence, a bound    *)
(* local is a one-element sequence holding its value.                      *)
(***************************************************************************)
EXTENDS Integers, Sequences, FiniteSets, TLC

VARIABLES pc, cuda_available, clock, queue,
          device, a, b, res, i, start_time, end_time, duration, gflops,
          raised, output, calls

vars == <<pc, cuda_available, clock, queue,
          device, a, b, res, i, start_time, end_time, duration, gflops,
          raised, output, calls>>

env == <<cuda_available, clock, queue>>

\* ------------------------------------------------------------------ bounds
\* Wall-clock readings are drawn from 0..MaxClock.
MaxClock == 2

\* --------------------------------------------------------- program constants
size == 500

iterations == 50

\* ------------------------------------------------------------------ helpers
Unbound == <<>>

Bound(v) == <<v>>

IsBound(x) == x # <<>>

Val(x) == x[1]

\* torch.device("cuda" if torch.cuda.is_available() else "cpu")
DeviceFor(avail) == IF avail THEN "cuda" ELSE "cpu"

\* torch.ones(size, size, device=device): a uniform matrix is represented by
\* its shape, the value every entry holds and the device it lives on.
Ones(n, m, dev) == [rows |-> n, cols |-> m, fill |-> 1, dev |-> dev]

\* torch.matmul(x, y) of two uniform matrices: a fresh tensor, every entry
\* the dot product of a row of x with a column of y.
Matmul(x, y) == [rows |-> x.rows, cols |-> y.cols,
                 fill |-> x.cols * x.fill * y.fill, dev |-> x.dev]

\* A backend / clock call as seen by the environment: the operation, the
\* device it addresses ("-" when it addresses none) and how it returned.
Call(op, dev, ret) == [op |-> op, dev |-> dev, ret |-> ret]

\* for _ in range(iterations)
LoopContinues_OffByOne(k) == k <= iterations

LoopContinues(k) == k < iterations

\* A matmul on the accelerator only enqueues a kernel on the stream; on the
\* CPU it has run to completion when the call returns.
Submit(q, dev, tag) == IF dev = "cuda" THEN Append(q, tag) ELSE q

\* An exception raised by the backend is not caught anywhere in benchmark():
\* it propagates to the top level and the process ends.
Propagate_Swallowed(exc, next) ==
    /\ raised' = exc
    /\ pc' = next

Propagate(exc, next) ==
    /\ raised' = exc
    /\ pc' = "aborted"

Running == pc \notin {"done", "aborted"}

\* --------------------------------------------------------------------- Init
Init ==
    /\ pc = "select_device"
    /\ cuda_available \in BOOLEAN
    /\ clock \in 0..MaxClock
    /\ queue = <<>>
    /\ device = "unbound"
    /\ a = Unbound
    /\ b = Unbound
    /\ res = Unbound
    /\ i = 0
    /\ start_time = Unbound
    /\ end_time = Unbound
    /\ duration = Unbound
    /\ gflops = Unbound
    /\ raised = "none"
    /\ output = <<>>
    /\ calls = <<>>

\* -------------------------------------------------------------- environment
\* Accelerator availability as reported by the runtime can change while the
\* program runs.
AvailabilityChange ==
    /\ Running
    /\ cuda_available' = ~cuda_available
    /\ UNCHANGED <<pc, clock, queue, device, a, b, res, i, start_time,
                   end_time, duration, gflops, raised, output, calls>>

\* time.time() normally returns non-decreasing values ...
ClockAdvance ==
    /\ Running
    /\ clock < MaxClock
    /\ clock' = clock + 1
    /\ UNCHANGED <<pc, cuda_available, queue, device, a, b, res, i,
                   start_time, end_time, duration, gflops, raised, output,
                   calls>>

\* ... but it is the system wall clock, which can be set back between calls.
ClockSetBack ==
    /\ Running
    /\ \E t \in 0..(clock - 1) : clock' = t
    /\ UNCHANGED <<pc, cuda_available, queue, device, a, b, res, i,
                   start_time, end_time, duration, gflops, raised, output,
                   calls>>

\* The CUDA stream finishes the oldest queued kernel.
DeviceComplete ==
    /\ Running
    /\ queue # <<>>
    /\ queue' = Tail(queue)
    /\ UNCHANGED <<pc, cuda_available, clock, device, a, b, res, i,
                   start_time, end_time, duration, gflops, raised, output,
                   calls>>

\* ------------------------------------------------------------------ program
\* line 9: device = torch.device("cuda" if torch.cuda.is_available() else "cpu")
SelectDevice ==
    /\ pc = "select_device"
    /\ device' = DeviceFor(cuda_available)
    /\ calls' = Append(calls, Call("is_available", "-",
                                   IF cuda_available THEN "True" ELSE "False"))
    /\ pc' = "print_device"
    /\ UNCHANGED <<env, a, b, res, i, start_time, end_time, duration, gflops,
                   raised, output>>

\* line 10: print(f"Benchmarking on: {device}")
PrintDevice ==
    /\ pc = "print_device"
    /\ output' = Append(output, [label |-> "Benchmarking on: ",
                                 value |-> Bound(device), decimals |-> 0])
    /\ pc' = "alloc_a"
    /\ UNCHANGED <<env, device, a, b, res, i, start_time, end_time, duration,
                   gflops, raised, calls>>

\* line 13: a = torch.ones(size, size, device=device)
AllocA ==
    /\ pc = "alloc_a"
    /\ \/ /\ a' = Bound(Ones(size, size, device))
          /\ calls' = Append(calls, Call("ones", device, "ok"))
          /\ pc' = "alloc_b"
          /\ UNCHANGED raised
       \/ /\ calls' = Append(calls, Call("ones", device, "error"))
          /\ Propagate("RuntimeError", "alloc_b")
          /\ UNCHANGED a
    /\ UNCHANGED <<env, device, b, res, i, start_time, end_time, duration,
                   gflops, output>>

\* line 14: b = torch.ones(size, size, device=device)
AllocB ==
    /\ pc = "alloc_b"
    /\ \/ /\ b' = Bound(Ones(size, size, device))
          /\ calls' = Append(calls, Call("ones", device, "ok"))
          /\ pc' = "warmup"
          /\ UNCHANGED raised
       \/ /\ calls' = Append(calls, Call("ones", device, "error"))
          /\ Propagate("RuntimeError", "warmup")
          /\ UNCHANGED b
    /\ UNCHANGED <<env, device, a, res, i, start_time, end_time, duration,
                   gflops, output>>

\* line 17: torch.matmul(a, b)   (result discarded)
Warmup ==
    /\ pc = "warmup"
    /\ \/ /\ queue' = Submit(queue, Val(a).dev, "warmup")
          /\ calls' = Append(calls, Call("matmul", Val(a).dev, "ok"))
          /\ pc' = "warmup_sync"
          /\ UNCHANGED raised
       \/ /\ calls' = Append(calls, Call("matmul", Val(a).dev, "error"))
          /\ Propagate("RuntimeError", "warmup_sync")
          /\ UNCHANGED queue
    /\ UNCHANGED <<cuda_available, clock, device, a, b, res, i, start_time,
                   end_time, duration, gflops, output>>

\* lines 18-19: if device.type == 'cuda': torch.cuda.synchronize()
\* synchronize() returns only once the stream has drained.
WarmupSync_NoWait ==
    /\ pc = "warmup_sync"
    /\ \/ /\ device = "cuda"
          /\ calls' = Append(calls, Call("synchronize", "cuda", "ok"))
          /\ pc' = "read_start"
          /\ UNCHANGED raised
       \/ /\ device = "cuda"
          /\ calls' = Append(calls, Call("synchronize", "cuda", "error"))
          /\ Propagate("RuntimeError", "read_start")
       \/ /\ device # "cuda"
          /\ pc' = "read_start"
          /\ UNCHANGED <<calls, raised>>
    /\ UNCHANGED <<env, device, a, b, res, i, start_time, end_time, duration,
                   gflops, output>>

WarmupSync_Reprobe ==
    /\ pc = "warmup_sync"
    /\ \/ /\ cuda_available
          /\ queue = <<>>
          /\ calls' = Append(calls, Call("synchronize", "cuda", "ok"))
          /\ pc' = "read_start"
          /\ UNCHANGED raised
       \/ /\ cuda_available
          /\ calls' = Append(calls, Call("synchronize", "cuda", "error"))
          /\ Propagate("RuntimeError", "read_start")
       \/ /\ ~cuda_available
          /\ pc' = "read_start"
          /\ UNCHANGED <<calls, raised>>
    /\ UNCHANGED <<env, device, a, b, res, i, start_time, end_time, duration,
                   gflops, output>>

WarmupSync ==
    /\ pc = "warmup_sync"
    /\ \/ /\ device = "cuda"
          /\ queue = <<>>
          /\ calls' = Append(calls, Call("synchronize", "cuda", "ok"))
          /\ pc' = "read_start"
          /\ UNCHANGED raised
       \/ /\ device = "cuda"
          /\ calls' = Append(calls, Call("synchronize", "cuda", "error"))
          /\ Propagate("RuntimeError", "read_start")
       \/ /\ device # "cuda"
          /\ pc' = "read_start"
          /\ UNCHANGED <<calls, raised>>
    /\ UNCHANGED <<env, device, a, b, res, i, start_time, end_time, duration,
                   gflops, output>>

\* line 21: start_time = time.time()
ReadStart ==
    /\ pc = "read_start"
    /\ start_time' = Bound(clock)
    /\ calls' = Append(calls, Call("time", "-", "ok"))
    /\ pc' = "loop"
    /\ UNCHANGED <<env, device, a, b, res, i, end_time, duration, gflops,
                   raised, output>>

\* lines 23-24: for _ in range(iterations): res = torch.matmul(a, b)
TimedMatmul_InPlace ==
    /\ pc = "loop"
    /\ LoopContinues(i)
    /\ \/ /\ res' = Bound(Matmul(Val(a), Val(b)))
          /\ a' = Bound(Matmul(Val(a), Val(b)))
          /\ queue' = Submit(queue, Val(a).dev, "timed")
          /\ calls' = Append(calls, Call("matmul", Val(a).dev, "ok"))
          /\ i' = i + 1
          /\ UNCHANGED <<pc, raised>>
       \/ /\ calls' = Append(calls, Call("matmul", Val(a).dev, "error"))
          /\ Propagate("RuntimeError", "loop")
          /\ UNCHANGED <<res, queue, i, a>>
    /\ UNCHANGED <<cuda_available, clock, device, b, start_time,
                   end_time, duration, gflops, output>>

TimedMatmul ==
    /\ pc = "loop"
    /\ LoopContinues(i)
    /\ \/ /\ res' = Bound(Matmul(Val(a), Val(b)))
          /\ queue' = Submit(queue, Val(a).dev, "timed")
          /\ calls' = Append(calls, Call("matmul", Val(a).dev, "ok"))
          /\ i' = i + 1
          /\ UNCHANGED <<pc, raised>>
       \/ /\ calls' = Append(calls, Call("matmul", Val(a).dev, "error"))
          /\ Propagate("RuntimeError", "loop")
          /\ UNCHANGED <<res, queue, i>>
    /\ UNCHANGED <<cuda_available, clock, device, a, b, start_time,
                   end_time, duration, gflops, output>>

\* line 23: range(iterations) is exhausted
LoopExit ==
    /\ pc = "loop"
    /\ ~LoopContinues(i)
    /\ pc' = "post_sync"
    /\ UNCHANGED <<env, device, a, b, res, i, start_time, end_time, duration,
                   gflops, raised, output, calls>>

\* lines 26-27: if device.type == 'cuda': torch.cuda.synchronize()
PostLoopSync_NoWait ==
    /\ pc = "post_sync"
    /\ \/ /\ device = "cuda"
          /\ calls' = Append(calls, Call("synchronize", "cuda", "ok"))
          /\ pc' = "read_end"
          /\ UNCHANGED raised
       \/ /\ device = "cuda"
          /\ calls' = Append(calls, Call("synchronize", "cuda", "error"))
          /\ Propagate("RuntimeError", "read_end")
       \/ /\ device # "cuda"
          /\ pc' = "read_end"
          /\ UNCHANGED <<calls, raised>>
    /\ UNCHANGED <<env, device, a, b, res, i, start_time, end_time, duration,
                   gflops, output>>

PostLoopSync_Always ==
    /\ pc = "post_sync"
    /\ \/ /\ queue = <<>>
          /\ calls' = Append(calls, Call("synchronize", "cuda", "ok"))
          /\ pc' = "read_end"
          /\ UNCHANGED raised
       \/ /\ calls' = Append(calls, Call("synchronize", "cuda", "error"))
          /\ Propagate("RuntimeError", "read_end")
    /\ UNCHANGED <<env, device, a, b, res, i, start_time, end_time, duration,
                   gflops, output>>

PostLoopSync ==
    /\ pc = "post_sync"
    /\ \/ /\ device = "cuda"
          /\ queue = <<>>
          /\ calls' = Append(calls, Call("synchronize", "cuda", "ok"))
          /\ pc' = "read_end"
          /\ UNCHANGED raised
       \/ /\ device = "cuda"
          /\ calls' = Append(calls, Call("synchronize", "cuda", "error"))
          /\ Propagate("RuntimeError", "read_end")
       \/ /\ device # "cuda"
          /\ pc' = "read_end"
          /\ UNCHANGED <<calls, raised>>
    /\ UNCHANGED <<env, device, a, b, res, i, start_time, end_time, duration,
                   gflops, output>>

\* line 29: end_time = time.time()
ReadEnd ==
    /\ pc = "read_end"
    /\ end_time' = Bound(clock)
    /\ calls' = Append(calls, Call("time", "-", "ok"))
    /\ pc' = "compute_duration"
    /\ UNCHANGED <<env, device, a, b, res, i, start_time, duration, gflops,
                   raised, output>>

\* line 30: duration = end_time - start_time
ComputeDuration ==
    /\ pc = "compute_duration"
    /\ duration' = Bound(Val(end_time) - Val(start_time))
    /\ pc' = "compute_gflops"
    /\ UNCHANGED <<env, device, a, b, res, i, start_time, end_time, gflops,
                   raised, output, calls>>

\* line 32: gflops = (2.0 * size**3 * iterations) / (duration * 1e9)
\* The quotient is kept exact as numerator and denominator, both divided by
\* 10^6 (which divides size**3) to stay within machine integers.  A float
\* division by 0.0 raises ZeroDivisionError, which nothing catches.
ComputeGflops ==
    /\ pc = "compute_gflops"
    /\ \/ /\ Val(duration) # 0
          /\ gflops' = Bound([num |-> 2 * ((size * size * size) \div 1000000)
                                        * iterations,
                              den |-> Val(duration) * 1000])
          /\ pc' = "print_time"
          /\ UNCHANGED raised
       \/ /\ Val(duration) = 0
          /\ Propagate("ZeroDivisionError", "print_time")
          /\ UNCHANGED gflops
    /\ UNCHANGED <<env, device, a, b, res, i, start_time, end_time, duration,
                   output, calls>>

\* line 33: print(f"Time taken: {duration:.4f}s")
PrintTime ==
    /\ pc = "print_time"
    /\ output' = Append(output, [label |-> "Time taken: ",
                                 value |-> duration, decimals |-> 4])
    /\ pc' = "print_gflops"
    /\ UNCHANGED <<env, device, a, b, res, i, start_time, end_time, duration,
                   gflops, raised, calls>>

\* line 34: print(f"GFLOPS: {gflops:.2f}")
PrintGflops ==
    /\ pc = "print_gflops"
    /\ output' = Append(output, [label |-> "GFLOPS: ",
                                 value |-> gflops, decimals |-> 2])
    /\ pc' = "done"
    /\ UNCHANGED <<env, device, a, b, res, i, start_time, end_time, duration,
                   gflops, raised, calls>>

Next ==
    \/ SelectDevice
    \/ PrintDevice
    \/ AllocA
    \/ AllocB
    \/ Warmup
    \/ WarmupSync
    \/ ReadStart
    \/ TimedMatmul
    \/ LoopExit
    \/ PostLoopSync
    \/ ReadEnd
    \/ ComputeDuration
    \/ ComputeGflops
    \/ PrintTime
    \/ PrintGflops
    \/ AvailabilityChange
    \/ ClockAdvance
    \/ ClockSetBack
    \/ DeviceComplete

Spec == Init /\ [][Next]_vars

\* ------------------------------------------------------ reading the history
\* The operations of the calls made so far, restricted to those in S.
OpsOf(S) ==
    LET s == SelectSeq(calls, LAMBDA e : e.op \in S)
    IN  [k \in DOMAIN s |-> s[k].op]

Repeat(x, n) == [k \in 1..n |-> x]

Labels == [k \in DOMAIN output |-> output[k].label]

Terminated == pc \in {"done", "aborted"}

\* ------------------------------------------------------------------- claims

\* C1: on the accelerator the end timestamp is never recorded while a timed
\* multiplication is still queued: the last calls before it are the last
\* matmul, then synchronize, then the clock read, and the stream is empty
\* from then on.
C1_EndAfterDrain ==
    (device = "cuda" /\ IsBound(end_time)) =>
        LET s == OpsOf({"matmul", "synchronize", "time"})
            n == Len(s)
        IN  /\ queue = <<>>
            /\ n >= 3
            /\ <<s[n - 2], s[n - 1], s[n]>> = <<"matmul", "synchronize", "time">>

C1_Witness ==
    /\ device = "cuda"
    /\ IsBound(end_time)
    /\ pc = "compute_duration"
    /\ i = iterations

\* C2: on the accelerator the start timestamp is never recorded while the
\* warm-up multiplication is pending: warm-up matmul, synchronize, clock read,
\* in that order, and no warm-up kernel is on the stream once start_time is set.
C2_StartAfterWarmup ==
    (device = "cuda" /\ IsBound(start_time)) =>
        LET s == OpsOf({"matmul", "synchronize", "time"})
        IN  /\ \A k \in DOMAIN queue : queue[k] # "warmup"
            /\ Len(s) >= 3
            /\ SubSeq(s, 1, 3) = <<"matmul", "synchronize", "time">>

C2_Witness ==
    /\ device = "cuda"
    /\ IsBound(start_time)
    /\ queue # <<>>
    /\ pc = "loop"

\* C3: exactly one multiplication (the warm-up) is submitted before the start
\* timestamp, exactly `iterations` between the start and the end timestamp,
\* and none after the end timestamp.
C3_WindowEnclosesLoop ==
    LET s == OpsOf({"matmul", "time"})
    IN  /\ IsBound(start_time) =>
              /\ Len(s) >= 2
              /\ SubSeq(s, 1, 2) = <<"matmul", "time">>
        /\ IsBound(end_time) =>
              s = <<"matmul", "time">> \o Repeat("matmul", iterations)
                    \o <<"time">>

C3_Witness ==
    /\ pc = "done"
    /\ IsBound(end_time)
    /\ i = iterations
    /\ Len(SelectSeq(calls, LAMBDA e : e.op = "matmul")) = iterations + 1

\* C4: the device is chosen by the one availability probe, which is the first
\* call of the run: "cuda" iff the probe returned True.  It keeps that value,
\* and both matrices, every matmul and every synchronize use it, whatever
\* the availability is later.
C4_DeviceChosenOnce ==
    /\ Len(SelectSeq(calls, LAMBDA e : e.op = "is_available")) <= 1
    /\ (calls # <<>>) => calls[1].op = "is_available"
    /\ (device = "unbound") <=> (calls = <<>>)
    /\ (device # "unbound") =>
          /\ device \in {"cuda", "cpu"}
          /\ (device = "cuda") <=> (calls[1].ret = "True")
    /\ \A k \in DOMAIN calls :
          calls[k].op \in {"ones", "matmul", "synchronize"} =>
              calls[k].dev = device
    /\ IsBound(a) => Val(a).dev = device
    /\ IsBound(b) => Val(b).dev = device
    /\ IsBound(res) => Val(res).dev = device
    /\ (queue # <<>>) => device = "cuda"

C4_Witness ==
    /\ pc = "done"
    /\ device = "cpu"
    /\ cuda_available
    /\ IsBound(a)
    /\ IsBound(b)

\* C5: the computed duration is greater than or equal to 0.
C5_DurationNonNegative ==
    IsBound(duration) => Val(duration) >= 0

\* C6: the throughput computation never divides by zero: once line 32 has
\* been executed, the duration is positive and the throughput is a
\* well-defined positive number.
C6_NoDivisionByZero ==
    (IsBound(duration) /\ pc \notin {"compute_gflops"}) =>
        /\ raised # "ZeroDivisionError"
        /\ Val(duration) > 0
        /\ IsBound(gflops)
        /\ Val(gflops).den # 0
        /\ Val(gflops).num * Val(gflops).den > 0

\* C7: once created, the matrices a and b keep the fixed side length and
\* all entries equal to 1 at every point of the run; a multiplication writes
\* only its own result.
C7_MatricesReadOnly ==
    /\ IsBound(a) =>
          Val(a) = [rows |-> size, cols |-> size, fill |-> 1, dev |-> device]
    /\ IsBound(b) =>
          Val(b) = [rows |-> size, cols |-> size, fill |-> 1, dev |-> device]

C7_Witness ==
    /\ pc = "done"
    /\ IsBound(a)
    /\ IsBound(b)
    /\ IsBound(res)
    /\ Val(res).fill = size

\* C8: when a backend call fails the run ends at that call: the process is
\* aborted, the failed call is the last call ever made and the only failed
\* one (nothing later runs, nothing is retried), and neither the
\* 'Time taken' nor the 'GFLOPS' line is printed.
C8_FailureAborts ==
    LET failed == SelectSeq(calls, LAMBDA e : e.ret = "error")
    IN  /\ (raised = "RuntimeError") <=> (failed # <<>>)
        /\ (failed # <<>>) =>
              /\ pc = "aborted"
              /\ Len(failed) = 1
              /\ calls[Len(calls)].ret = "error"
              /\ \A k \in DOMAIN output :
                    output[k].label \notin {"Time taken: ", "GFLOPS: "}
              /\ ~IsBound(duration)
              /\ ~IsBound(gflops)

C8_Witness ==
    /\ raised = "RuntimeError"
    /\ pc = "aborted"
    /\ i > 0
    /\ i < iterations
    /\ calls[Len(calls)] = Call("matmul", device, "error")

\* C9: a run in which no backend call fails ends having printed exactly the
\* three lines 'Benchmarking on', 'Time taken', 'GFLOPS', once each and in
\* this order; the last two only after the end timestamp was recorded and
\* the throughput computed.
C9_ThreeLines ==
    /\ (Terminated /\ raised # "RuntimeError") =>
          Labels = <<"Benchmarking on: ", "Time taken: ", "GFLOPS: ">>
    /\ (Len(output) >= 2) => (IsBound(end_time) /\ IsBound(gflops))

\* C10: synchronize is invoked only on the accelerator: never in a CPU run;
\* in a completed accelerator run exactly twice, once between the warm-up
\* and the start timestamp and once between the last timed multiplication
\* and the end timestamp; never while the timed loop is running.
C10_SyncOnlyOnAccelerator ==
    LET s == OpsOf({"matmul", "synchronize", "time"})
        n == Len(SelectSeq(calls, LAMBDA e : e.op = "synchronize"))
    IN  /\ (device # "cuda") => n = 0
        /\ (device = "cuda" /\ pc = "done") =>
              s = <<"matmul", "synchronize", "time">>
                    \o Repeat("matmul", iterations)
                    \o <<"synchronize", "time">>
        /\ (device = "cuda" /\ pc = "loop") =>
              /\ n = 1
              /\ SubSeq(s, 1, 3) = <<"matmul", "synchronize", "time">>

C10_Witness ==
    /\ pc = "done"
    /\ device = "cuda"
    /\ Len(SelectSeq(calls, LAMBDA e : e.op = "synchronize")) = 2

====
